---- MODULE Spec2Model ----
(***************************************************************************)
(* Model of the curbside-management tools:                                 *)
(*   - the shared-row scenario evaluator (shared_row_data_evaluator) of    *)
(*     scripts/curbsidelib.py, duplicated in scripts/T3_ROW_and_Curb_...;  *)
(*   - the treatment sieves, the intermediate table and the treatments by  *)
(*     segment of scripts/T4_Recommend_Curbside_Treatments.py;             *)
(*   - the CurbLR converter of scripts/T1_CurbLR_To_Feature_Class.py;      *)
(*   - the SharedStreets fetch of scripts/T0_Get_SharedStreets.py;         *)
(*   - the ROW fallback of conduct_row_and_curbside_statistic_analysis in  *)
(*     scripts/T3_ROW_and_Curb_Summary_Statistics.py;                      *)
(*   - the curb feature to centerline association of                       *)
(*     scripts/T2_Prepare_LR_Correspondence.py.                            *)
(* Every tool is a script of its own: each has its specification, in which *)
(* the other tools stay idle.                                              *)
(*                                                                         *)
(* Widths are integers in units of 1/10000 metre, so that the feet to      *)
(* metre factor 0.3048 is the integer 3048.                                *)
(*                                                                         *)
(* A dataframe is modelled by one of its rows: every method of the         *)
(* evaluator works column-wise with np.where / sum(axis=1) or row-wise     *)
(* with apply(axis=1), so no row ever reads another row.  The through-lane *)
(* columns of a side are a sequence in the order of the sorted column      *)
(* list (RTL_List, LTL_List), position i being lane i (fewer than ten      *)
(* columns, so the lexicographic sort is the numeric order).               *)
(* DataFrames and lists are Python objects: they live in the heaps         *)
(* `frames` and `lists` and the evaluator's dictionaries hold references,  *)
(* so that a copy and an alias are different things.                       *)
(***************************************************************************)
EXTENDS Integers, Sequences, FiniteSets, TLC

VARIABLES
    frames,         \* heap of dataframes: reference -> table (one row)
    scenario_dfs,   \* self.scenario_dfs: scenario key -> dataframe reference
    added_columns,  \* self.added_columns: key -> list reference
    lists,          \* heap of Python lists: list reference -> sequence of names
    last,           \* the last method call, with its arguments
    pre,            \* the table the last call started from
    ops,            \* number of method calls made so far
    constructed,    \* the baseline table as __init__ left it
    sieve,          \* the (segment, treatment) row handed to the sieves of Tool 4
    tool0,          \* a run of Tool 0 (T0_Get_SharedStreets.py)
    tool1,          \* a run of Tool 1 (T1_CurbLR_To_Feature_Class.py)
    tool2,          \* a run of Tool 2 (T2_Prepare_LR_Correspondence.py)
    tool3,          \* a run of Tool 3 (T3_ROW_and_Curb_Summary_Statistics.py)
    tool4           \* the tables of Tool 4 (T4_Recommend_Curbside_Treatments.py)

tools == <<tool0, tool1, tool2, tool3, tool4>>

vars == <<frames, scenario_dfs, added_columns, lists, last, pre, ops, constructed, sieve,
          tools>>

-----------------------------------------------------------------------------
(* Bounds *)

MaxLanes == 2
MaxOps == 2
MaxRemoval == 3
MaxSegments == 2
MaxTreatments == 2
MaxFeatures == 2
MaxPolygons == 2
MaxCorridors == 2
MaxCurbs == 1
MaxCenterlines == 2

(* Program constants *)

FeetToMetres == 3048
CurbSideLaneMaxFeet == 11
LaneMaxFeet == 10
ParkMaxFeet == 8

Keys == {"A", "B"}
BASELINE_ROW == "BASELINE_ROW"

\* self.sr_df is the dataframe object handed to the constructor
sr_df == 0

-----------------------------------------------------------------------------
(* Helpers *)

RECURSIVE SumSeq(_)
SumSeq(s) == IF s = <<>> THEN 0 ELSE Head(s) + SumSeq(Tail(s))

Range(f) == {f[x] : x \in DOMAIN f}

Min(a, b) == IF a < b THEN a ELSE b

\* number of entries of a sequence with a positive value
RECURSIVE CountPositive(_)
CountPositive(s) ==
    IF s = <<>> THEN 0
    ELSE (IF Head(s) > 0 THEN 1 ELSE 0) + CountPositive(Tail(s))

\* "1" in name, for a through-lane column named by its lane number
RECURSIVE HasDigitOne(_)
HasDigitOne(i) ==
    IF i % 10 = 1 THEN TRUE
    ELSE IF i < 10 THEN FALSE
    ELSE HasDigitOne(i \div 10)

-----------------------------------------------------------------------------
(* shared_row_data_evaluator *)

\* scen_df[self.row_slices].sum(axis=1)
RowSlicesSum(t) ==
    t.Left_Sidewalk_Through_Zone + t.Left_Parking_Lane + SumSeq(t.LTL)
    + t.Center_Lane + SumSeq(t.RTL) + t.Right_Parking_Lane
    + t.Right_Sidewalk_Through_Zone

\* the column assignments of update_row
UpdateRowColumns(t) ==
    LET total == RowSlicesSum(t)
        unused == t.Base_Total_ROW_Width - total
        lsw == t.Left_Sidewalk_Through_Zone
        rsw == t.Right_Sidewalk_Through_Zone
    IN [t EXCEPT !.Total_ROW_Width = total,
                 !.Unused_ROW_Width = unused,
                 !.Left_Sidewalk_Width = lsw,
                 !.Right_Sidewalk_Width = rsw,
                 !.Curb_To_Curb_Width = (total + unused) - (lsw + rsw)]

\* __init__: the statistics columns added to the input table
Construct(rtl, ltl, lpark, rpark, center, lside, rside) ==
    LET total == lside + lpark + SumSeq(ltl) + center + SumSeq(rtl) + rpark + rside
    IN [RTL |-> rtl, LTL |-> ltl,
        Left_Parking_Lane |-> lpark, Right_Parking_Lane |-> rpark,
        Center_Lane |-> center,
        Left_Sidewalk_Through_Zone |-> lside,
        Right_Sidewalk_Through_Zone |-> rside,
        Right_Thru_Lane_Widths |-> SumSeq(rtl),
        Left_Thru_Lane_Widths |-> SumSeq(ltl),
        Total_ROW_Width |-> total,
        Base_Total_ROW_Width |-> total,
        Unused_ROW_Width |-> 0,
        Left_Sidewalk_Width |-> lside,
        Right_Sidewalk_Width |-> rside,
        Curb_To_Curb_Width |-> total - (lside + rside),
        extra |-> {},
        Right_Lanes |-> 0, Left_Lanes |-> 0, Total_Lanes |-> 0]

\* self.sr_df.copy(): a new dataframe object
NewFrame == CHOOSE r \in 1..Cardinality(Keys) :
                /\ r \notin Range(scenario_dfs)
                /\ \A q \in 1..(r - 1) : q \in Range(scenario_dfs)

\* a setdefault that stores the baseline object itself
DfAlias(ref) == ref

DfCopy(ref) == NewFrame

\* self.scenario_dfs.setdefault(scenario_key, self.sr_df.copy()): the reference held
\* under the key afterwards
SetDefaultRef(k) ==
    IF k \in DOMAIN scenario_dfs THEN scenario_dfs[k] ELSE DfCopy(sr_df)

\* get_row_df(scenario): the dataframe returned (scenario = "None" is the default)
get_row_df(scenario) ==
    IF scenario \in DOMAIN scenario_dfs THEN scenario_dfs[scenario] ELSE sr_df

\* get_added_columns(scenario): the list returned
get_added_columns(scenario) ==
    IF scenario \in DOMAIN scenario_dfs
    THEN (IF scenario \in DOMAIN added_columns
          THEN lists[added_columns[scenario]] ELSE <<>>)
    ELSE lists[added_columns[BASELINE_ROW]]

\* np.where(col > max, max, col)
CapWidth(v, max) == IF v > max THEN max ELSE v

\* every through lane capped like a curbside lane
RightSizeLanesOneCap(s) ==
    [i \in 1..Len(s) |-> CapWidth(s[i], CurbSideLaneMaxFeet * FeetToMetres)]

\* right_size_row: the three capping loops
RightSizeLanes(s) ==
    [i \in 1..Len(s) |->
        IF HasDigitOne(i)
        THEN CapWidth(s[i], CurbSideLaneMaxFeet * FeetToMetres)
        ELSE CapWidth(s[i], LaneMaxFeet * FeetToMetres)]

RightSizeColumns(t) ==
    [t EXCEPT !.RTL = RightSizeLanes(t.RTL),
              !.LTL = RightSizeLanes(t.LTL),
              !.Left_Parking_Lane = CapWidth(@, ParkMaxFeet * FeetToMetres),
              !.Right_Parking_Lane = CapWidth(@, ParkMaxFeet * FeetToMetres)]

\* remove_centermost_lane: the loop body at 0-based position idx.  row[idx-1] is
\* positional, so row[-1] (idx = 0) is the last lane column; the iteration reads the
\* row as it is being changed.
RECURSIVE RemoveLoop(_, _, _)
RemoveLoop(row, idx, lane_check) ==
    IF idx >= Len(row) THEN row
    ELSE LET value == row[idx + 1]
             target == IF idx = 0 THEN Len(row) ELSE idx
             next == IF value <= 0 /\ (idx - 1) # lane_check
                     THEN [row EXCEPT ![target] = 0]
                     ELSE row
         IN RemoveLoop(next, idx + 1, lane_check)

remove_centermost_lane(row, lock_last_lane) ==
    RemoveLoop(row, 0, IF lock_last_lane THEN 0 ELSE 0 - 1)

\* range(count) applications of remove_centermost_lane
RECURSIVE RemovePasses(_, _, _)
RemovePasses(row, count, lock_last_lane) ==
    IF count <= 0 THEN row
    ELSE RemovePasses(remove_centermost_lane(row, lock_last_lane), count - 1,
                      lock_last_lane)

\* int(round(lane_removal_count/2.0, 0)): Python 3 rounds a half to the even integer
right_lanes_to_remove(n) ==
    LET q == n \div 2
    IN IF n % 2 = 0 THEN q ELSE IF q % 2 = 0 THEN q ELSE q + 1

\* int(lane_removal_count/2.0)
left_lanes_to_remove(n) == n \div 2

RoadDietColumns(t, n, lock_last_lane) ==
    [t EXCEPT !.extra = @ \cup {"Right_Most", "Left_Most"},
              !.RTL = RemovePasses(@, right_lanes_to_remove(n), lock_last_lane),
              !.LTL = RemovePasses(@, left_lanes_to_remove(n), lock_last_lane)]

\* the two flags applied to the wrong sides
RemoveParkingColumnsSwapped(t, right_lane_removed, left_lane_removed) ==
    [t EXCEPT !.Right_Parking_Lane = IF left_lane_removed THEN 0 ELSE @,
              !.Left_Parking_Lane = IF right_lane_removed THEN 0 ELSE @]

RemoveParkingColumns(t, right_lane_removed, left_lane_removed) ==
    [t EXCEPT !.Right_Parking_Lane = IF right_lane_removed THEN 0 ELSE @,
              !.Left_Parking_Lane = IF left_lane_removed THEN 0 ELSE @]

\* update_row(scenario): the dataframe it recomputes, given the dictionary
UpdateRowTarget(dfs, scenario) ==
    IF scenario \in DOMAIN dfs THEN dfs[scenario] ELSE sr_df

\* self.added_columns.setdefault(scenario, self.added_columns.get("BASELINE_ROW"))
UpdateRowAddedColumns(dfs, scenario) ==
    IF scenario \in DOMAIN dfs /\ scenario \notin DOMAIN added_columns
    THEN (scenario :> added_columns[BASELINE_ROW]) @@ added_columns
    ELSE added_columns

NoArgs == [n |-> 0, lock |-> FALSE, right |-> FALSE, left |-> FALSE,
           right_passes |-> 0, left_passes |-> 0]

\* An editor method: setdefault, the column edits `edited` of the scenario's table,
\* then update_row(scenario_key).
Editor(k, edited, op, args) ==
    LET existed == k \in DOMAIN scenario_dfs
        ref == SetDefaultRef(k)
        dfs == (k :> ref) @@ scenario_dfs
        heap == (ref :> edited) @@ frames
        target == UpdateRowTarget(dfs, k)
    IN /\ ops < MaxOps
       /\ ops' = ops + 1
       /\ scenario_dfs' = dfs
       /\ frames' = [heap EXCEPT ![target] = UpdateRowColumns(@)]
       /\ added_columns' = UpdateRowAddedColumns(dfs, k)
       /\ lists' = lists
       /\ pre' = frames[IF existed THEN ref ELSE sr_df]
       /\ last' = [op |-> op, key |-> k, existed |-> existed, raised |-> FALSE,
                   n |-> args.n, lock |-> args.lock,
                   right |-> args.right, left |-> args.left,
                   right_passes |-> args.right_passes,
                   left_passes |-> args.left_passes]
       /\ UNCHANGED <<constructed, sieve, tools>>

\* the table an editor starts from
EditorStart(k) == frames[IF k \in DOMAIN scenario_dfs THEN scenario_dfs[k] ELSE sr_df]

right_size_row(k) ==
    Editor(k, RightSizeColumns(EditorStart(k)), "right_size_row", NoArgs)

apply_road_diet(k, n, lock_last_lane) ==
    Editor(k, RoadDietColumns(EditorStart(k), n, lock_last_lane), "apply_road_diet",
           [NoArgs EXCEPT !.n = n, !.lock = lock_last_lane,
                          !.right_passes = right_lanes_to_remove(n),
                          !.left_passes = left_lanes_to_remove(n)])

remove_parking_lanes(k, right_lane_removed, left_lane_removed) ==
    Editor(k, RemoveParkingColumns(EditorStart(k), right_lane_removed, left_lane_removed),
           "remove_parking_lanes",
           [NoArgs EXCEPT !.right = right_lane_removed, !.left = left_lane_removed])

clear_sceanarios ==
    /\ ops < MaxOps
    /\ ops' = ops + 1
    /\ scenario_dfs' = <<>>
    /\ frames' = (sr_df :> frames[sr_df])
    /\ pre' = frames[sr_df]
    /\ last' = [op |-> "clear_sceanarios", key |-> "None", existed |-> FALSE,
                raised |-> FALSE, n |-> 0, lock |-> FALSE, right |-> FALSE,
                left |-> FALSE, right_passes |-> 0, left_passes |-> 0]
    /\ UNCHANGED <<added_columns, lists, constructed, sieve, tools>>

\* add_lane_statistics_to_df: the lane counts over zip(self.LTL_List, self.RTL_List).
\* The binary columns carry a fresh 0..n-1 index; the table's index is taken to be
\* 0..n-1 as well, so the assignment aligns row for row.
ZippedLanes(t) == Min(Len(t.LTL), Len(t.RTL))

LaneStatisticsColumns(t) ==
    LET n == ZippedLanes(t)
        right == CountPositive(SubSeq(t.RTL, 1, n))
        left == CountPositive(SubSeq(t.LTL, 1, n))
    IN [t EXCEPT !.extra = @ \cup {"Right_Lanes", "Left_Lanes", "Total_Lanes"},
                 !.Right_Lanes = right,
                 !.Left_Lanes = left,
                 !.Total_Lanes = left + right]

\* With no zipped pair right_lanes_df is None, with one it is a Series: .sum(axis=1)
\* raises in both cases, after added_columns was extended.
LaneStatisticsRaises(t) == ZippedLanes(t) < 2

add_lane_statistics_to_df(scenario) ==
    LET ref == get_row_df(scenario)
        lref == IF scenario \in DOMAIN scenario_dfs
                THEN added_columns[scenario] ELSE added_columns[BASELINE_ROW]
        raised == LaneStatisticsRaises(frames[ref])
    IN /\ ops < MaxOps
       /\ ops' = ops + 1
       /\ lists' = [lists EXCEPT ![lref] =
                        @ \o <<"Right_Lanes", "Left_Lanes", "Total_Lanes">>]
       /\ frames' = IF raised THEN frames
                    ELSE [frames EXCEPT ![ref] = LaneStatisticsColumns(@)]
       /\ pre' = frames[ref]
       /\ last' = [op |-> "add_lane_statistics_to_df", key |-> scenario,
                   existed |-> scenario \in DOMAIN scenario_dfs, raised |-> raised,
                   n |-> 0, lock |-> FALSE, right |-> FALSE, left |-> FALSE,
                   right_passes |-> 0, left_passes |-> 0]
       /\ UNCHANGED <<scenario_dfs, added_columns, constructed, sieve,
                      tools>>

-----------------------------------------------------------------------------
(* Tool 4: the treatment sieves *)

NumPriorities == 7

\* modal_priority_sieve(row): row.Modal_Priority is the sequence of the columns
\* Modal_Priority_1..7, row.lo-row.hi the "Appropriate Priority Rank Range"
RECURSIVE ModalRank(_, _, _)
ModalRank(row, i, rank) ==
    IF i > NumPriorities THEN rank
    ELSE ModalRank(row, i + 1, IF row.Modal_Priority[i] = row.mode THEN i ELSE rank)

modal_priority_sieve(row) ==
    LET rank == ModalRank(row, 1, 0 - 1)
    IN IF rank >= row.lo /\ rank <= row.hi THEN 1 ELSE 0

\* success_metric_sieve(row): row.has_metric says whether the row has the column
\* '<mode>_Success_Metric', row.metric is its value
success_metric_sieve(row) ==
    LET success_value == IF row.has_metric THEN row.metric ELSE 0
    IN 1 - success_value

NoSieve == [phase |-> "idle"]

\* a tool that is not run
NoRun == [phase |-> "idle"]

ApplySieves ==
    /\ sieve.phase = "row"
    /\ sieve' = [sieve EXCEPT !.phase = "sieved",
                              !.Modal_Priority_Sieve = modal_priority_sieve(sieve),
                              !.Success_Metric_Sieve = success_metric_sieve(sieve)]
    /\ UNCHANGED <<frames, scenario_dfs, added_columns, lists, last, pre, ops,
                   constructed, tools>>

-----------------------------------------------------------------------------
(* Tool 4: the intermediate table and the treatments by segment *)

\* A text cell is a sequence of tokens (words, digits, "," and " ").

NumSieves == 5
NumMoeColumns == 26

DigitValue == [c \in {"0", "1", "2", "3", "4", "5", "6", "7", "8", "9"} |->
                 CASE c = "0" -> 0 [] c = "1" -> 1 [] c = "2" -> 2 [] c = "3" -> 3
                   [] c = "4" -> 4 [] c = "5" -> 5 [] c = "6" -> 6 [] c = "7" -> 7
                   [] c = "8" -> 8 [] c = "9" -> 9]

\* int("".join(filter(str.isdigit, text)))
RECURSIVE DigitsOf(_, _)
DigitsOf(text, acc) ==
    IF text = <<>> THEN acc
    ELSE DigitsOf(Tail(text), IF Head(text) \in DOMAIN DigitValue
                              THEN 10 * acc + DigitValue[Head(text)] ELSE acc)

\* text.split(","): the pieces of text between the commas
RECURSIVE SplitComma(_, _, _)
SplitComma(text, piece, pieces) ==
    IF text = <<>> THEN Append(pieces, piece)
    ELSE IF Head(text) = "," THEN SplitComma(Tail(text), <<>>, Append(pieces, piece))
    ELSE SplitComma(Tail(text), Append(piece, Head(text)), pieces)

\* piece.strip(): the piece without its leading and trailing blanks
RECURSIVE Strip(_)
Strip(piece) ==
    IF piece = <<>> THEN piece
    ELSE IF Head(piece) = " " THEN Strip(Tail(piece))
    ELSE IF piece[Len(piece)] = " " THEN Strip(SubSeq(piece, 1, Len(piece) - 1))
    ELSE piece

\* ";".join(pieces)
RECURSIVE JoinSemicolon(_)
JoinSemicolon(pieces) ==
    IF pieces = <<>> THEN <<>>
    ELSE IF Len(pieces) = 1 THEN pieces[1]
    ELSE pieces[1] \o <<";">> \o JoinSemicolon(Tail(pieces))

land_use_sieve(row) ==
    LET split == SplitComma(row.Appropriate_Land_Use, <<>>, <<>>)
        land_uses == {Strip(split[i]) : i \in 1..Len(split)}
    IN IF row.Land_Use \in land_uses THEN 1 ELSE 0

place_type_sieve(row) ==
    LET place_types == DigitsOf(row.Place_Types, 0)
        data_place_type == DigitsOf(row.Place_Type, 0)
    IN IF data_place_type <= place_types THEN 1 ELSE 0

\* Available_ROW is in 1/10000 m, the necessary width in feet
row_available_sieve(row) ==
    LET necessary_row == DigitsOf(row.Total_ROW_Necessary_Per_Direction, 0) * FeetToMetres
    IN IF row.Available_ROW >= necessary_row THEN 1 ELSE 0

\* the row as the sieves of SpecSieve read it: the success metric columns of the
\* seven known modes are always there after the fill of lines 151-155
SieveView(row) ==
    [Modal_Priority |-> row.Modal_Priority, mode |-> row.mode, lo |-> row.lo,
     hi |-> row.hi, has_metric |-> row.mode \in DOMAIN row.Success_Metric,
     metric |-> IF row.mode \in DOMAIN row.Success_Metric
                THEN row.Success_Metric[row.mode] ELSE 0]

\* the sieves dict, in its order
SieveColumns(row) ==
    <<modal_priority_sieve(SieveView(row)), land_use_sieve(row), place_type_sieve(row),
      row_available_sieve(row), success_metric_sieve(SieveView(row))>>

\* np.where(len(sieves) == Sum_Sieve, 1, 0)
TreatmentApplied(sieve_columns) ==
    IF NumSieves = SumSeq(sieve_columns) THEN 1 ELSE 0

\* the Cartesian product of lines 127-131, segment by segment
CartesianProduct(data_df, treatment_df) ==
    [n \in 1..(Len(data_df) * Len(treatment_df)) |->
        LET s == ((n - 1) \div Len(treatment_df)) + 1
            i == ((n - 1) % Len(treatment_df)) + 1
        IN [OBJECTID |-> data_df[s].OBJECTID,
            Treatment_ID |-> treatment_df[i].Treatment_ID,
            Treatments |-> treatment_df[i].Treatments]]

\* pd.merge(left, right, on=key, how="left"): every left row with the columns of
\* every right row of the same key (the keys of the left rows are all in right)
RECURSIVE MergeLeft(_, _, _, _)
MergeLeft(left, right, key, cols) ==
    IF left = <<>> THEN <<>>
    ELSE LET matches == SelectSeq(right, LAMBDA r : r[key] = Head(left)[key])
             joined == [m \in 1..Len(matches) |->
                          [c \in DOMAIN Head(left) \cup cols |->
                              IF c \in DOMAIN Head(left) THEN Head(left)[c]
                              ELSE matches[m][c]]]
         IN joined \o MergeLeft(Tail(left), right, key, cols)

SegmentColumns == {"Modal_Priority", "Place_Type", "Available_ROW", "Land_Use",
                   "Success_Metric"}
TreatmentColumns == {"mode", "lo", "hi", "Place_Types", "Appropriate_Land_Use",
                     "Total_ROW_Necessary_Per_Direction"}

SuccessMetricModes == {"Bicycle", "Pedestrian", "Transit", "Commerce", "Storage",
                       "Automobility", "Ridehail"}

\* lines 151-155: a missing success metric column becomes a column of 0
FillSuccessMetrics(data_df) ==
    [s \in 1..Len(data_df) |->
        [data_df[s] EXCEPT !.Success_Metric =
            [mode \in DOMAIN @ \cup SuccessMetricModes |->
                IF mode \in DOMAIN @ THEN @[mode] ELSE 0]]]

CreateIntermediateTable(data_df, treatment_df) ==
    LET product == CartesianProduct(data_df, treatment_df)
        with_data == MergeLeft(product, FillSuccessMetrics(data_df), "OBJECTID",
                               SegmentColumns)
        merged == MergeLeft(with_data, treatment_df, "Treatment_ID", TreatmentColumns)
    IN [n \in 1..Len(merged) |->
          LET sieve_columns == SieveColumns(merged[n])
          IN [OBJECTID |-> merged[n].OBJECTID,
              Treatment_ID |-> merged[n].Treatment_ID,
              Treatments |-> merged[n].Treatments,
              Sieves |-> sieve_columns,
              Sum_Sieve |-> SumSeq(sieve_columns),
              Treatment_Applied |-> TreatmentApplied(sieve_columns)]]

create_intermediate_table ==
    /\ tool4.phase = "read"
    /\ tool4' = [tool4 EXCEPT
                   !.phase = "intermediate",
                   !.data_df = FillSuccessMetrics(@),
                   !.treatment_intermediate =
                       CreateIntermediateTable(tool4.data_df, tool4.treatment_df)]
    /\ UNCHANGED <<frames, scenario_dfs, added_columns, lists, last, pre, ops,
                   constructed, sieve, tool0, tool1, tool2, tool3>>

\* treatment_moes[i] joined: the Measures of Effectiveness of the last row of
\* treatment_df with Treatment_ID i, split at the commas and joined by ";"
TreatmentMoes(treatment_df, i) ==
    LET rows == SelectSeq(treatment_df, LAMBDA r : r.Treatment_ID = i)
    IN JoinSemicolon(SplitComma(rows[Len(rows)].Measures_of_Effectiveness, <<>>, <<>>))

\* the keys of groupby(segment_id_col), sorted
RECURSIVE SortedKeys(_)
SortedKeys(keys) ==
    IF keys = {} THEN <<>>
    ELSE LET least == CHOOSE k \in keys : \A other \in keys : k <= other
         IN <<least>> \o SortedKeys(keys \ {least})

NaN == <<"nan">>

IdentifyTreatmentsBySegment(treatment_df, treatment_intermediate) ==
    LET names == SortedKeys({treatment_intermediate[n].OBJECTID :
                               n \in 1..Len(treatment_intermediate)})
    IN [g \in 1..Len(names) |->
          LET applied_df == SelectSeq(treatment_intermediate,
                                      LAMBDA r : /\ r.OBJECTID = names[g]
                                                 /\ r.Treatment_Applied = 1)
              treatments == [n \in 1..Len(applied_df) |-> applied_df[n].Treatment_ID]
          IN [OBJECTID |-> names[g],
              TreatmentID |-> treatments,
              Treatments |-> [n \in 1..Len(applied_df) |-> applied_df[n].Treatments],
              MOEs |-> [i \in 1..NumMoeColumns |->
                          IF i \in Range(treatments)
                          THEN TreatmentMoes(treatment_df, i) ELSE NaN]]]

identify_curbside_treatments_by_segment ==
    /\ tool4.phase = "intermediate"
    /\ tool4' = [tool4 EXCEPT
                   !.phase = "output",
                   !.output_df = IdentifyTreatmentsBySegment(tool4.treatment_df,
                                                             tool4.treatment_intermediate)]
    /\ UNCHANGED <<frames, scenario_dfs, added_columns, lists, last, pre, ops,
                   constructed, sieve, tool0, tool1, tool2, tool3>>

-----------------------------------------------------------------------------
(* Tool 1: the CurbLR converter *)

\* A JSON object is a function from its keys; a missing key is a key that is not in
\* the domain.  A feature has one regulation.  None stands for None and for NaN in
\* the columns that take both (isna and fillna treat them alike).

None == "None"

AllDays == <<"mo", "tu", "we", "th", "fr", "sa", "su">>

day_dict == [day \in Range(AllDays) |->
               CASE day = "mo" -> "1" [] day = "tu" -> "2" [] day = "we" -> "3"
                 [] day = "th" -> "4" [] day = "fr" -> "5" [] day = "sa" -> "6"
                 [] day = "su" -> "7"]

\* json_normalize(data['features'], ['properties', 'regulations', 'timeSpans'], meta):
\* one row for every time span, with the location and the payment of its regulation;
\* `regulation` remembers the feature the row came from
RECURSIVE json_normalize(_, _)
json_normalize(features, r) ==
    IF r > Len(features) THEN <<>>
    ELSE [t \in 1..Len(features[r].timeSpans) |->
            [regulation |-> r, timeSpan |-> features[r].timeSpans[t],
             location |-> features[r].location,
             has_payment |-> features[r].has_payment]]
         \o json_normalize(features, r + 1)

\* a column of the normalised table is there when some record has the key
ColumnExists(df, key) == \E i \in 1..Len(df) : key \in DOMAIN df[i].timeSpan

\* get_item_zero(column): the cell is a list of one dict, or NaN when the record
\* has no such key
get_item_zero(row, key) ==
    IF key \in DOMAIN row.timeSpan THEN row.timeSpan[key] ELSE <<>>

\* extract(column, field)
extract(column, field) == IF field \in DOMAIN column THEN column[field] ELSE None

\* lines 102-113: the column of `key` read for 'from' or 'to'; a missing column is
\* the KeyError branch
OptionalExtract(df, row, key, field) ==
    IF ColumnExists(df, key) THEN extract(get_item_zero(row, key), field) ELSE None

\* lines 135-138: the four replacements, on the list of the quoted day names
DayReplace(days) ==
    LET mo == [i \in 1..Len(days) |-> IF days[i] = "m" THEN "mo" ELSE days[i]]
        tu == [i \in 1..Len(mo) |->
                 IF i > 1 /\ mo[i] = "t" /\ mo[i - 1] = "mo" THEN "tu" ELSE mo[i]]
        th == [i \in 1..Len(tu) |->
                 IF i > 1 /\ tu[i] = "t" /\ tu[i - 1] = "we" THEN "th" ELSE tu[i]]
    IN [i \in 1..Len(th) |-> IF th[i] = "s" THEN "su" ELSE th[i]]

\* str() of a missing daysOfWeek: 'nan' when json_normalize unpacked the column
\* daysOfWeek.days, 'None' when extract read it (lines 126-130)
MissingDays == {<<"nan">>, <<"None">>}

\* lines 126-140: the comma separated day names, as the list of the names
DaysOfWeekString(row, missing) ==
    IF "daysOfWeek" \in DOMAIN row.timeSpan
    THEN DayReplace(row.timeSpan["daysOfWeek"]) ELSE missing

\* lines 94-149: the row with its extracted and defaulted columns
CleanRow(df, row, missing) ==
    LET days == DaysOfWeekString(row, missing)
        from == OptionalExtract(df, row, "timesOfDay", "from")
        to == OptionalExtract(df, row, "timesOfDay", "to")
    IN [regulation |-> row.regulation,
        SharedStreetID |-> extract(row.location, "shstRefId"),
        effectiveDates_from |-> OptionalExtract(df, row, "effectiveDates", "from"),
        effectiveDates_to |-> OptionalExtract(df, row, "effectiveDates", "to"),
        payment |-> IF row.has_payment THEN 1 ELSE 0,
        daysOfWeek |-> IF days \in MissingDays THEN AllDays ELSE days,
        timesOfDay_from |-> IF from = None THEN "0:00" ELSE from,
        timesOfDay_to |-> IF to = None THEN "23:59" ELSE to,
        warnings |-> (IF days \in MissingDays THEN <<"daysOfWeek missing;">> ELSE <<>>)
                     \o (IF from = None THEN <<"timesOfDay missing;">> ELSE <<>>)]

\* lines 154-177: one feature for every day of the row, the first being primary
ExplodeDays(row) ==
    [d \in 1..Len(row.daysOfWeek) |->
        LET dayOfWeek == row.daysOfWeek[d]
            date == IF dayOfWeek \in DOMAIN day_dict
                    THEN <<"1/", day_dict[dayOfWeek], "/1900 ">> ELSE <<>>
        IN [regulation |-> row.regulation,
            SharedStreetID |-> row.SharedStreetID,
            effectiveDates_from |-> row.effectiveDates_from,
            effectiveDates_to |-> row.effectiveDates_to,
            daysOfWeek |-> row.daysOfWeek,
            timesOfDay_from |-> row.timesOfDay_from,
            timesOfDay_to |-> row.timesOfDay_to,
            timesOfDay_from_dt |-> IF date = <<>> THEN <<None>>
                                   ELSE Append(date, row.timesOfDay_from),
            timesOfDay_to_dt |-> IF date = <<>> THEN <<None>>
                                 ELSE Append(date, row.timesOfDay_to),
            payment |-> row.payment,
            warnings |-> row.warnings,
            primary |-> IF d = 1 THEN 1 ELSE 0,
            dayOfWeek |-> dayOfWeek]]

RECURSIVE ExportRows(_, _, _, _)
ExportRows(df, i, missing, out) ==
    IF i > Len(df) THEN out
    ELSE ExportRows(df, i + 1, missing, out \o ExplodeDays(CleanRow(df, df[i], missing)))

\* the whole conversion: line 129 raises KeyError when no time span has daysOfWeek,
\* before the output feature class is created (line 185)
convert_curblr_to_feature_class ==
    /\ tool1.phase = "start"
    /\ LET df == json_normalize(tool1.features, 1)
       IN IF ~ColumnExists(df, "daysOfWeek")
          THEN tool1' = [tool1 EXCEPT !.phase = "raised", !.error = "KeyError"]
          ELSE \E missing \in MissingDays :
                  tool1' = [tool1 EXCEPT !.phase = "done",
                                         !.out_fc = ExportRows(df, 1, missing, <<>>)]
    /\ UNCHANGED <<frames, scenario_dfs, added_columns, lists, last, pre, ops,
                   constructed, sieve, tool0, tool2, tool3, tool4>>

-----------------------------------------------------------------------------
(* Tool 0: the SharedStreets fetch *)

\* tool0.row is the position of the cursor of line 44, tool0.inner the position of
\* the cursor of line 49 over the projected copy (0 outside that loop);
\* tool0.requests is the list of the extents requested so far, each a blocking
\* urlopen call; tool0.outputFC is "absent", "old" (there before the run) or "new"
\* (created by createFC in this run).

\* createFC(features): CreateFeatureclass_management fails on an existing output
\* unless the geoprocessing environment allows overwriting
createFC(run) ==
    IF run.outputFC # "absent" /\ ~run.overwriteOutput
    THEN [run EXCEPT !.phase = "raised", !.error = "ExecuteError"]
    ELSE [run EXCEPT !.outputFC = "new"]

\* sendRequest(poly), up to the blocking urlopen call of line 69
sendRequest(run, extent) ==
    [run EXCEPT !.phase = "waiting", !.requests = Append(@, extent)]

\* the loops of getPolygon from the current cursor positions up to the next request
RECURSIVE getPolygonLoop(_)
getPolygonLoop(run) ==
    IF run.row > Len(run.polygons) THEN [run EXCEPT !.phase = "done"]
    ELSE IF run.projected
    THEN IF run.inner = 0
         THEN getPolygonLoop([run EXCEPT !.temp = TRUE, !.inner = 1])
         ELSE IF run.inner > Len(run.polygons)
         THEN getPolygonLoop([run EXCEPT !.temp = FALSE, !.inner = 0, !.row = @ + 1])
         ELSE sendRequest([run EXCEPT !.inner = @ + 1], run.polygons[run.inner])
    ELSE sendRequest([run EXCEPT !.row = @ + 1], run.polygons[run.row])

getPolygon ==
    /\ tool0.phase = "start"
    /\ tool0' = getPolygonLoop(tool0)
    /\ UNCHANGED <<frames, scenario_dfs, added_columns, lists, last, pre, ops,
                   constructed, sieve, tool1, tool2, tool3, tool4>>

\* urlopen raises and the request is sent once more
urlopen_raises_retry ==
    /\ tool0.phase = "waiting"
    /\ tool0' = [tool0 EXCEPT !.failed = TRUE,
                              !.requests = Append(@, @[Len(@)])]
    /\ UNCHANGED <<frames, scenario_dfs, added_columns, lists, last, pre, ops,
                   constructed, sieve, tool1, tool2, tool3, tool4>>

\* urlopen (or reading and parsing the response) raises: nothing catches it
urlopen_raises ==
    /\ tool0.phase = "waiting"
    /\ tool0' = [tool0 EXCEPT !.phase = "raised", !.error = "URLError",
                              !.failed = TRUE]
    /\ UNCHANGED <<frames, scenario_dfs, added_columns, lists, last, pre, ops,
                   constructed, sieve, tool1, tool2, tool3, tool4>>

\* urlopen returns: createFC, then on with the loops of getPolygon
urlopen_returns ==
    /\ tool0.phase = "waiting"
    /\ LET created == createFC([tool0 EXCEPT !.phase = "running"])
       IN tool0' = IF created.phase = "raised" THEN created ELSE getPolygonLoop(created)
    /\ UNCHANGED <<frames, scenario_dfs, added_columns, lists, last, pre, ops,
                   constructed, sieve, tool1, tool2, tool3, tool4>>

-----------------------------------------------------------------------------
(* Tool 3: conduct_row_and_curbside_statistic_analysis *)

\* tool3.output is the output feature class: "absent", then "copied"; tool3.joined
\* is the set of the summaries joined to it; tool3.corridors says, corridor by
\* corridor, how the curb table behaves in the loop of lines 388-448.

RowWarning == "The ROW Summaries could not be completed for this tool run."
CurbWarning == "Curb features could not be summarized by corridor."
NoCurbWarning == "No curbside features of the appropriate day or extent could be processed."

\* the calls inside the try of lines 352-366, in their order
RowSteps == <<"shared_row_data_evaluator", "get_row_df", "right_size_row",
              "remove_parking_lanes", "apply_road_diet",
              "retrieve_columns_from_scenarios", "reset_index",
              "join_df_columns_to_feature_class">>

\* lines 327-347: the centerlines are copied to the output and both tables are read
copy_features ==
    /\ tool3.phase = "start"
    /\ tool3' = [tool3 EXCEPT !.phase = "row", !.output = "copied"]
    /\ UNCHANGED <<frames, scenario_dfs, added_columns, lists, last, pre, ops,
                   constructed, sieve, tool0, tool1, tool2, tool4>>

\* lines 352-370 without the except clause: the exception of step `raised` leaves
\* the function
row_statistics_uncaught(raised) ==
    /\ tool3.phase = "row"
    /\ tool3' = IF raised = 0
                THEN [tool3 EXCEPT !.phase = "curbside", !.joined = @ \cup {"ROW"}]
                ELSE [tool3 EXCEPT !.phase = "raised", !.row_raised = RowSteps[raised],
                                   !.error = "ROW"]
    /\ UNCHANGED <<frames, scenario_dfs, added_columns, lists, last, pre, ops,
                   constructed, sieve, tool0, tool1, tool2, tool4>>

\* lines 352-370: the ROW scenarios are evaluated and joined; call number `raised`
\* raises (0: none does), and the bare except turns that into a warning
row_statistics(raised) ==
    /\ tool3.phase = "row"
    /\ tool3' = IF raised = 0
                THEN [tool3 EXCEPT !.phase = "curbside", !.joined = @ \cup {"ROW"}]
                ELSE [tool3 EXCEPT !.phase = "curbside", !.row_raised = RowSteps[raised],
                                   !.warnings = Append(@, RowWarning)]
    /\ UNCHANGED <<frames, scenario_dfs, added_columns, lists, last, pre, ops,
                   constructed, sieve, tool0, tool1, tool2, tool4>>

\* the loop of lines 388-448 from corridor i on: "raises" is an exception outside
\* the try of line 414, "keyerror" the KeyError caught at line 418, "empty" a
\* corridor with no regulation active on the days analysed
RECURSIVE CorridorLoop(_, _, _)
CorridorLoop(run, i, final_corridor_df) ==
    IF i > Len(run.corridors)
    THEN IF final_corridor_df = <<>>
         THEN [run EXCEPT !.phase = "done", !.warnings = Append(@, NoCurbWarning)]
         ELSE [run EXCEPT !.phase = "done", !.joined = @ \cup {"Curb"},
                          !.final_corridor_df = final_corridor_df]
    ELSE CASE run.corridors[i] = "raises" ->
                [run EXCEPT !.phase = "raised", !.error = "Curb"]
           [] run.corridors[i] = "keyerror" ->
                [run EXCEPT !.phase = "done", !.warnings = Append(@, CurbWarning)]
           [] run.corridors[i] = "empty" -> CorridorLoop(run, i + 1, final_corridor_df)
           [] OTHER -> CorridorLoop(run, i + 1, Append(final_corridor_df, i))

\* lines 372-461
curbside_summaries ==
    /\ tool3.phase = "curbside"
    /\ tool3' = CorridorLoop(tool3, 1, <<>>)
    /\ UNCHANGED <<frames, scenario_dfs, added_columns, lists, last, pre, ops,
                   constructed, sieve, tool0, tool1, tool2, tool4>>

-----------------------------------------------------------------------------
(* Tool 2: prepare_lr_correspondence *)

\* tool2.located is the event table LocateFeaturesAlongRoutes writes for the end
\* vertices of the curb features copied to memory: one row for every location of a
\* vertex on a centerline route within the bandwidth, with the measure m_located,
\* the signed Distance and the LENGTH of the curb feature.  Measures, distances and
\* lengths are integers of one linear unit.

\* sin(radians(angle_threshold)) for the default threshold of 20 degrees, as
\* SinNumerator / SinDenominator
SinNumerator == 3420
SinDenominator == 10000

Abs(x) == IF x < 0 THEN 0 - x ELSE x

MinOf(values) == CHOOSE v \in values : \A w \in values : v <= w

MaxOf(values) == CHOOSE v \in values : \A w \in values : v >= w

\* the rows of `located` of one (curb feature, centerline) group
GroupRows(located, curb, route) ==
    SelectSeq(located, LAMBDA e : e.curb = curb /\ e.route = route)

\* lines 186-191: groupby([curb, centerline]).agg(...), the groups in key order
RECURSIVE GroupByAgg(_, _, _, _, _)
GroupByAgg(located, curb, route, curbs, routes) ==
    IF curb > curbs THEN <<>>
    ELSE IF route > routes THEN GroupByAgg(located, curb + 1, 1, curbs, routes)
    ELSE LET rows == GroupRows(located, curb, route)
             ms == {rows[i].m_located : i \in 1..Len(rows)}
             ds == {rows[i].Distance : i \in 1..Len(rows)}
         IN (IF rows = <<>> THEN <<>>
             ELSE <<[curb |-> curb, route |-> route,
                     m_located_min |-> MinOf(ms), m_located_max |-> MaxOf(ms),
                     m_located_count |-> Len(rows),
                     Distance_min |-> MinOf(ds), Distance_max |-> MaxOf(ds),
                     LENGTH_first |-> rows[1].LENGTH]>>)
            \o GroupByAgg(located, curb, route + 1, curbs, routes)

\* lines 194-197: more than one location, at different measures
LocatedFilter(df) ==
    SelectSeq(df, LAMBDA g : g.m_located_count > 1 /\ g.m_located_min # g.m_located_max)

\* lines 200-201; Distance_mean is kept as twice its value
Metrics(df) ==
    [i \in 1..Len(df) |->
        [curb |-> df[i].curb, route |-> df[i].route,
         m_located_min |-> df[i].m_located_min, m_located_max |-> df[i].m_located_max,
         LENGTH_first |-> df[i].LENGTH_first,
         Distance_delta |-> Abs(df[i].Distance_max - df[i].Distance_min),
         Distance_mean_x2 |-> Abs(df[i].Distance_max) + Abs(df[i].Distance_min)]]

\* lines 202-205: d_over_l < sin(radians(angle_threshold)); a LENGTH of 0 makes
\* d_over_l inf or NaN, which is not below the threshold
ParallelFilter(df) ==
    SelectSeq(df, LAMBDA g : /\ g.LENGTH_first > 0
                             /\ g.Distance_delta * SinDenominator
                                    < SinNumerator * g.LENGTH_first)

\* the position of the first row of the group with the largest Distance_mean
IdxMax(df, curb) ==
    LET group == {i \in 1..Len(df) : df[i].curb = curb}
        largest == {i \in group :
                      \A j \in group : df[i].Distance_mean_x2 >= df[j].Distance_mean_x2}
    IN MinOf(largest)

\* line 206: groupby(curb)['Distance_mean'].idxmin(), the position of the first row
\* of the group with the smallest Distance_mean
IdxMin(df, curb) ==
    LET group == {i \in 1..Len(df) : df[i].curb = curb}
        smallest == {i \in group :
                       \A j \in group : df[i].Distance_mean_x2 <= df[j].Distance_mean_x2}
    IN MinOf(smallest)

\* lines 206-210: one row for every curb feature left in df
ClosestCenterlines(df) ==
    LET curbs == SortedKeys({df[i].curb : i \in 1..Len(df)})
    IN [n \in 1..Len(curbs) |->
          LET row == df[IdxMin(df, curbs[n])]
          IN [curb |-> curbs[n], route |-> row.route,
              m_from |-> row.m_located_min, m_to |-> row.m_located_max]]

\* the locations of the two end vertices of a curb feature of length 10 on one
\* centerline: none; both ends, close and nearly parallel; both ends, farther away;
\* both ends on opposite sides of the centerline; the start alone; the start twice
\* (on two parts of the route) and the end not at all; both ends at one measure
LocatedPatterns ==
    {<<>>,
     <<[vertex |-> "start", m_located |-> 0, Distance |-> 3, LENGTH |-> 10],
       [vertex |-> "end", m_located |-> 10, Distance |-> 4, LENGTH |-> 10]>>,
     <<[vertex |-> "start", m_located |-> 20, Distance |-> 8, LENGTH |-> 10],
       [vertex |-> "end", m_located |-> 10, Distance |-> 8, LENGTH |-> 10]>>,
     <<[vertex |-> "start", m_located |-> 0, Distance |-> 2, LENGTH |-> 10],
       [vertex |-> "end", m_located |-> 10, Distance |-> 0 - 6, LENGTH |-> 10]>>,
     <<[vertex |-> "start", m_located |-> 0, Distance |-> 3, LENGTH |-> 10]>>,
     <<[vertex |-> "start", m_located |-> 0, Distance |-> 2, LENGTH |-> 10],
       [vertex |-> "start", m_located |-> 30, Distance |-> 2, LENGTH |-> 10]>>,
     <<[vertex |-> "start", m_located |-> 5, Distance |-> 3, LENGTH |-> 10],
       [vertex |-> "end", m_located |-> 5, Distance |-> 3, LENGTH |-> 10]>>}

\* the event table of the chosen patterns, pair by pair
RECURSIVE LocatedTable(_, _, _, _, _)
LocatedTable(choice, curb, route, curbs, routes) ==
    IF curb > curbs THEN <<>>
    ELSE IF route > routes THEN LocatedTable(choice, curb + 1, 1, curbs, routes)
    ELSE [i \in 1..Len(choice[<<curb, route>>]) |->
            [curb |-> curb, route |-> route,
             vertex |-> choice[<<curb, route>>][i].vertex,
             m_located |-> choice[<<curb, route>>][i].m_located,
             Distance |-> choice[<<curb, route>>][i].Distance,
             LENGTH |-> choice[<<curb, route>>][i].LENGTH]]
         \o LocatedTable(choice, curb, route + 1, curbs, routes)

\* lines 125-183: the routes and the end vertices are made and the vertices are
\* located along the centerline routes; every (curb feature, centerline) pair gets
\* the locations of one of the patterns
locate_features ==
    /\ tool2.phase = "start"
    /\ \E choice \in [(1..tool2.curbs) \X (1..tool2.centerlines) -> LocatedPatterns] :
          tool2' = [tool2 EXCEPT
                      !.phase = "located",
                      !.located = LocatedTable(choice, 1, 1, tool2.curbs,
                                               tool2.centerlines)]
    /\ UNCHANGED <<frames, scenario_dfs, added_columns, lists, last, pre, ops,
                   constructed, sieve, tool0, tool1, tool3, tool4>>

\* lines 185-247: the candidates are filtered, the closest is chosen for every curb
\* feature, joined to the curb features, and those with m-values become the routes
associate_curb_features ==
    /\ tool2.phase = "located"
    /\ LET df == GroupByAgg(tool2.located, 1, 1, tool2.curbs, tool2.centerlines)
           kept == Metrics(LocatedFilter(df))
           my_df == ClosestCenterlines(ParallelFilter(kept))
       IN tool2' = [tool2 EXCEPT !.phase = "done", !.kept = kept,
                                 !.out_route_curb_features = my_df]
    /\ UNCHANGED <<frames, scenario_dfs, added_columns, lists, last, pre, ops,
                   constructed, sieve, tool0, tool1, tool3, tool4>>

-----------------------------------------------------------------------------
(* Inputs *)

\* A street of the input table: the width of its through lanes and of its left and
\* right parking lanes (1/10000 m).  3.0 m is below both lane caps, 3.2 m between the
\* 10 ft and the 11 ft cap, 3.6 m above both; 2.0 m and 2.2 m are below the parking
\* cap and 2.7 m is above it.
Streets == {[lane |-> 30000, lpark |-> 20000, rpark |-> 0],
            [lane |-> 32000, lpark |-> 27000, rpark |-> 22000],
            [lane |-> 36000, lpark |-> 0, rpark |-> 27000]}
Modes == {"Transit", "Bicycle"}
MetricValues == {0, 1, 2}

\* the through-lane columns of one side: each lane is absent (0, the fillna value)
\* or has the street's lane width
LaneRows(w) == UNION {[1..n -> {0, w}] : n \in 1..MaxLanes}

\* the left side has as many through-lane columns as the right side or one fewer
LeftRows(rtl) == {SubSeq(rtl, 1, n) : n \in {Len(rtl) - 1, Len(rtl)} \ {0}}

BaseColumns == <<"Total_ROW_Width", "Base_Total_ROW_Width", "Unused_ROW_Width",
                 "Left_Sidewalk_Width", "Right_Sidewalk_Width", "Curb_To_Curb_Width">>

NoCall == [op |-> "__init__", key |-> "None", existed |-> FALSE, raised |-> FALSE,
           n |-> 0, lock |-> FALSE, right |-> FALSE, left |-> FALSE,
           right_passes |-> 0, left_passes |-> 0]

InitEvaluator(t) ==
    /\ frames = (sr_df :> t)
    /\ scenario_dfs = <<>>
    /\ added_columns = (BASELINE_ROW :> 0)
    /\ lists = (0 :> BaseColumns)
    /\ last = NoCall
    /\ pre = t
    /\ ops = 0
    /\ constructed = t

\* the tools that are not run
ToolsIdle ==
    /\ tool0 = NoRun
    /\ tool1 = NoRun
    /\ tool2 = NoRun
    /\ tool3 = NoRun
    /\ tool4 = NoRun

Init ==
    /\ \E st \in Streets : \E rtl \in LaneRows(st.lane) : \E ltl \in LeftRows(rtl) :
          InitEvaluator(Construct(rtl, ltl, st.lpark, st.rpark, 30000, 15000, 18000))
    /\ sieve = NoSieve
    /\ ToolsIdle

Next ==
    \/ \E k \in Keys : right_size_row(k)
    \/ \E k \in Keys, n \in 0..MaxRemoval, lock \in BOOLEAN : apply_road_diet(k, n, lock)
    \/ \E k \in Keys, r \in BOOLEAN, l \in BOOLEAN : remove_parking_lanes(k, r, l)
    \/ clear_sceanarios
    \/ \E s \in Keys \cup {"None"} : add_lane_statistics_to_df(s)

Spec == Init /\ [][Next]_vars

\* tables with one more right than left through-lane column, two at least
InitLaneStats ==
    /\ \E st \in Streets : \E rtl \in [1..(MaxLanes + 1) -> {0, st.lane}] :
          InitEvaluator(Construct(rtl, SubSeq(rtl, 1, MaxLanes), st.lpark, st.rpark,
                                  30000, 15000, 18000))
    /\ sieve = NoSieve
    /\ ToolsIdle

SpecLaneStats == InitLaneStats /\ [][Next]_vars

InitSieve ==
    /\ InitEvaluator(Construct(<<30000>>, <<30000>>, 0, 0, 0, 15000, 15000))
    /\ \E mp \in [1..NumPriorities -> Modes], mode \in Modes, lo \in 1..NumPriorities,
          hi \in 1..NumPriorities, hm \in BOOLEAN, m \in MetricValues :
          /\ lo <= hi
          /\ sieve = [phase |-> "row", Modal_Priority |-> mp, mode |-> mode,
                      lo |-> lo, hi |-> hi, has_metric |-> hm, metric |-> m,
                      Modal_Priority_Sieve |-> 0, Success_Metric_Sieve |-> 0]
    /\ ToolsIdle

NextSieve == ApplySieves

SpecSieve == InitSieve /\ [][NextSieve]_vars

\* the segments of the centerline table: the land use and the Transit success
\* metric vary (-1 being a no-data value), the Bicycle success metric column is
\* missing; 4 m of right-of-way are available
TransitFirst == <<"Transit", "Bicycle", "None", "None", "None", "None", "None">>
LandUses == {"Commercial", "Residential"}
SegmentMetricValues == {0 - 1, 0, 1}
SegmentKinds ==
    {[Modal_Priority |-> TransitFirst, Place_Type |-> <<"PT", "2">>,
      Available_ROW |-> 40000, Land_Use |-> <<lu>>, Success_Metric |-> ("Transit" :> m)] :
        lu \in LandUses, m \in SegmentMetricValues}

\* the rows of the treatment table: a treatment of either mode for priority ranks
\* 1-2 and place types up to 3, needing 10 ft, for commercial or for all land uses
TreatmentKinds ==
    {[Treatments |-> <<mode, "lane">>, mode |-> mode, lo |-> 1, hi |-> 2,
      Place_Types |-> <<"PT", "3">>, Appropriate_Land_Use |-> lus,
      Total_ROW_Necessary_Per_Direction |-> <<"1", "0", " ", "ft">>,
      Measures_of_Effectiveness |-> <<mode, "delay", ",", mode, "volume">>] :
        mode \in Modes, lus \in {<<"Commercial">>,
                                 <<"Commercial", ",", " ", "Residential">>}}

\* the treatment IDs of the table shipped with the tool are 1..26
TreatmentIDs == {1, 2, NumMoeColumns + 1}

\* the object IDs of the centerlines are 1..n; the treatment table is in the order
\* of its distinct IDs
InitTreatments ==
    /\ InitEvaluator(Construct(<<30000>>, <<30000>>, 0, 0, 0, 15000, 15000))
    /\ sieve = NoSieve
    /\ tool0 = NoRun /\ tool1 = NoRun /\ tool2 = NoRun /\ tool3 = NoRun
    /\ \E n \in 1..MaxSegments, k \in 1..MaxTreatments :
       \E segs \in [1..n -> SegmentKinds], trs \in [1..k -> TreatmentKinds],
          ids \in [1..k -> TreatmentIDs] :
          /\ \A i \in 1..k, j \in 1..k : i < j => ids[i] < ids[j]
          /\ tool4 =
               [phase |-> "read",
                data_df |->
                    [o \in 1..n |->
                        [OBJECTID |-> o, Modal_Priority |-> segs[o].Modal_Priority,
                         Place_Type |-> segs[o].Place_Type,
                         Available_ROW |-> segs[o].Available_ROW,
                         Land_Use |-> segs[o].Land_Use,
                         Success_Metric |-> segs[o].Success_Metric]],
                treatment_df |->
                    [i \in 1..k |->
                        [Treatment_ID |-> ids[i], Treatments |-> trs[i].Treatments,
                         mode |-> trs[i].mode, lo |-> trs[i].lo, hi |-> trs[i].hi,
                         Place_Types |-> trs[i].Place_Types,
                         Appropriate_Land_Use |-> trs[i].Appropriate_Land_Use,
                         Total_ROW_Necessary_Per_Direction |->
                             trs[i].Total_ROW_Necessary_Per_Direction,
                         Measures_of_Effectiveness |->
                             trs[i].Measures_of_Effectiveness]],
                treatment_intermediate |-> <<>>,
                output_df |-> <<>>]

NextTreatments ==
    \/ create_intermediate_table
    \/ identify_curbside_treatments_by_segment

SpecTreatments == InitTreatments /\ [][NextTreatments]_vars

\* the time spans of the CurbLR file: with or without daysOfWeek (also in the
\* abbreviated forms the replacements repair), timesOfDay (with both ends or only
\* 'from') and effectiveDates
DaysValues == {<<"mo">>, <<"m", "t">>}
TimesValues == {<<"from", "to">>, <<"from">>}
TimeSpanKeys == SUBSET {"daysOfWeek", "timesOfDay", "effectiveDates"}
TimeSpans ==
    {[key \in keys |->
        CASE key = "daysOfWeek" -> days
          [] key = "timesOfDay" ->
                [f \in Range(times) |-> IF f = "from" THEN "08:00" ELSE "18:00"]
          [] key = "effectiveDates" -> [from |-> "01-01", to |-> "06-30"]] :
        keys \in TimeSpanKeys, days \in DaysValues, times \in TimesValues}

\* a feature whose regulation has no or one time span, with or without a location
\* reference and with or without payment
CurbFeatures ==
    {[timeSpans |-> spans, location |-> location, has_payment |-> has_payment] :
        spans \in {<<>>} \cup {<<span>> : span \in TimeSpans},
        location \in {<<>>, [shstRefId |-> "ref"]},
        has_payment \in BOOLEAN}

InitCurbLR ==
    /\ InitEvaluator(Construct(<<30000>>, <<30000>>, 0, 0, 0, 15000, 15000))
    /\ sieve = NoSieve
    /\ tool0 = NoRun /\ tool2 = NoRun /\ tool3 = NoRun /\ tool4 = NoRun
    /\ \E n \in 1..MaxFeatures : \E features \in [1..n -> CurbFeatures] :
          tool1 = [phase |-> "start", features |-> features, out_fc |-> <<>>,
                   error |-> None]

NextCurbLR == convert_curblr_to_feature_class

SpecCurbLR == InitCurbLR /\ [][NextCurbLR]_vars

\* the extents of the polygons of the input feature class
Extents == {"A", "B"}

InitFetch ==
    /\ InitEvaluator(Construct(<<30000>>, <<30000>>, 0, 0, 0, 15000, 15000))
    /\ sieve = NoSieve
    /\ tool1 = NoRun /\ tool2 = NoRun /\ tool3 = NoRun /\ tool4 = NoRun
    /\ \E n \in 1..MaxPolygons : \E polygons \in [1..n -> Extents] :
       \E projected \in BOOLEAN, overwriteOutput \in BOOLEAN,
          existing \in {"absent", "old"} :
          tool0 = [phase |-> "start", polygons |-> polygons, projected |-> projected,
                   overwriteOutput |-> overwriteOutput, existing |-> existing,
                   outputFC |-> existing, temp |-> FALSE, row |-> 1, inner |-> 0,
                   requests |-> <<>>, failed |-> FALSE, error |-> None]

NextFetch ==
    \/ getPolygon
    \/ urlopen_raises
    \/ urlopen_returns

SpecFetch == InitFetch /\ [][NextFetch]_vars

CorridorKinds == {"summarised", "empty", "keyerror", "raises"}

InitSummary ==
    /\ InitEvaluator(Construct(<<30000>>, <<30000>>, 0, 0, 0, 15000, 15000))
    /\ sieve = NoSieve
    /\ tool0 = NoRun /\ tool1 = NoRun /\ tool2 = NoRun /\ tool4 = NoRun
    /\ \E n \in 0..MaxCorridors : \E corridors \in [1..n -> CorridorKinds] :
          tool3 = [phase |-> "start", corridors |-> corridors, output |-> "absent",
                   joined |-> {}, warnings |-> <<>>, row_raised |-> None,
                   error |-> None, final_corridor_df |-> <<>>]

NextSummary ==
    \/ copy_features
    \/ \E raised \in 0..Len(RowSteps) : row_statistics(raised)
    \/ curbside_summaries

SpecSummary == InitSummary /\ [][NextSummary]_vars

InitCorrespondence ==
    /\ InitEvaluator(Construct(<<30000>>, <<30000>>, 0, 0, 0, 15000, 15000))
    /\ sieve = NoSieve
    /\ tool0 = NoRun /\ tool1 = NoRun /\ tool3 = NoRun /\ tool4 = NoRun
    /\ \E curbs \in 1..MaxCurbs, centerlines \in 1..MaxCenterlines :
          tool2 = [phase |-> "start", curbs |-> curbs, centerlines |-> centerlines,
                   located |-> <<>>, kept |-> <<>>, out_route_curb_features |-> <<>>]

NextCorrespondence ==
    \/ locate_features
    \/ associate_curb_features

SpecCorrespondence == InitCorrespondence /\ [][NextCorrespondence]_vars

-----------------------------------------------------------------------------
(* Properties of the scenario evaluator *)

Editors == {"right_size_row", "apply_road_diet", "remove_parking_lanes"}

\* the scenario table the last editor call returned
Edited == frames[scenario_dfs[last.key]]

FeetCap(feet) == feet * FeetToMetres

LaneCap(i) == IF i = 1 THEN FeetCap(CurbSideLaneMaxFeet) ELSE FeetCap(LaneMaxFeet)

LanesRightSized(before, after) ==
    /\ Len(after) = Len(before)
    /\ \A i \in 1..Len(after) :
          /\ after[i] <= LaneCap(i)
          /\ before[i] <= LaneCap(i) => after[i] = before[i]

ParkingRightSized(before, after) ==
    /\ after <= FeetCap(ParkMaxFeet)
    /\ before <= FeetCap(ParkMaxFeet) => after = before

C1_WitnessCurbside ==
    /\ last.op = "right_size_row"
    /\ pre.RTL[1] > FeetCap(CurbSideLaneMaxFeet)
    /\ Edited.RTL[1] = FeetCap(CurbSideLaneMaxFeet)
    /\ Edited.LTL[1] = FeetCap(CurbSideLaneMaxFeet)

\* C2: apply_road_diet(k, lane_removal_count = n) makes n removal passes in all,
\* ceil(n/2) of them on the right through lanes and floor(n/2) on the left ones.
C2_PassSplit ==
    last.op = "apply_road_diet" =>
        /\ last.right_passes + last.left_passes = last.n
        /\ last.right_passes = (last.n + 1) \div 2
        /\ last.left_passes = last.n \div 2

\* C3: with lock_last_lane = True a side that had a positive-width through lane
\* before apply_road_diet still has one after it, for any lane_removal_count, and a
\* street with one through lane per direction is not changed.
C3_LastLaneLocked ==
    (last.op = "apply_road_diet" /\ last.lock) =>
        /\ CountPositive(pre.RTL) >= 1 => CountPositive(Edited.RTL) >= 1
        /\ CountPositive(pre.LTL) >= 1 => CountPositive(Edited.LTL) >= 1
        /\ (CountPositive(pre.RTL) = 1 /\ CountPositive(pre.LTL) = 1) =>
              (Edited.RTL = pre.RTL /\ Edited.LTL = pre.LTL)

\* lanes 1..k of the row are positive and the columns after k are 0
LanesOneTo(row, k) ==
    /\ k <= Len(row)
    /\ \A i \in 1..Len(row) : (row[i] > 0) <=> (i <= k)

\* one removal pass over a side with lanes 1..k, k >= 2, removes exactly lane k
CentermostRemoved(before, after) ==
    \A k \in 2..Len(before) :
        LanesOneTo(before, k) => after = [before EXCEPT ![k] = 0]

\* C4: a removal pass of apply_road_diet on a side with lanes 1..k (k >= 2) of
\* positive width sets the width of lane k to 0 and leaves lanes 1..k-1 unchanged,
\* whatever the number of through-lane columns.
C4_CentermostLaneRemoved ==
    last.op = "apply_road_diet" =>
        /\ last.right_passes = 1 => CentermostRemoved(pre.RTL, Edited.RTL)
        /\ last.left_passes = 1 => CentermostRemoved(pre.LTL, Edited.LTL)

\* C5: remove_parking_lanes(k, right_lane_removed, left_lane_removed) sets the right
\* parking lane of scenario k to 0 exactly when right_lane_removed, the left one
\* exactly when left_lane_removed, and leaves the other slice widths unchanged.
C5_ParkingRemoved ==
    last.op = "remove_parking_lanes" =>
        /\ Edited.Right_Parking_Lane =
              (IF last.right THEN 0 ELSE pre.Right_Parking_Lane)
        /\ Edited.Left_Parking_Lane =
              (IF last.left THEN 0 ELSE pre.Left_Parking_Lane)
        /\ Edited.RTL = pre.RTL
        /\ Edited.LTL = pre.LTL
        /\ Edited.Center_Lane = pre.Center_Lane
        /\ Edited.Left_Sidewalk_Through_Zone = pre.Left_Sidewalk_Through_Zone
        /\ Edited.Right_Sidewalk_Through_Zone = pre.Right_Sidewalk_Through_Zone

\* remove_parking_lanes has removed the right parking lane only, on a street that has
\* parking lanes on both sides
C5_Witness ==
    /\ last.op = "remove_parking_lanes"
    /\ last.right /\ ~last.left
    /\ pre.Right_Parking_Lane > 0 /\ pre.Left_Parking_Lane > 0
    /\ Edited.Right_Parking_Lane = 0
    /\ Edited.Left_Parking_Lane = pre.Left_Parking_Lane

\* the slice widths and the ROW totals of a table
SlicesAndTotals(t) ==
    <<t.RTL, t.LTL, t.Left_Parking_Lane, t.Right_Parking_Lane, t.Center_Lane,
      t.Left_Sidewalk_Through_Zone, t.Right_Sidewalk_Through_Zone,
      t.Total_ROW_Width, t.Base_Total_ROW_Width, t.Unused_ROW_Width,
      t.Left_Sidewalk_Width, t.Right_Sidewalk_Width, t.Curb_To_Curb_Width>>

C7_ScenariosCleared ==
    /\ last.op = "clear_sceanarios" =>
          /\ DOMAIN scenario_dfs = {}
          /\ DOMAIN added_columns = {BASELINE_ROW}
          /\ \A k \in Keys : get_row_df(k) = sr_df
    /\ (last.op \in Editors /\ ~last.existed) =>
          /\ SlicesAndTotals(pre) = SlicesAndTotals(frames[sr_df])
          /\ get_added_columns(last.key) = get_added_columns(BASELINE_ROW)

\* C8: add_lane_statistics_to_df adds to the chosen table Right_Lanes, the number of
\* right through-lane columns of positive width, Left_Lanes, the same for the left
\* columns, and Total_Lanes, their sum, also when the two sides have different
\* numbers of through-lane columns.
C8_LaneCounts ==
    last.op = "add_lane_statistics_to_df" =>
        LET t == frames[get_row_df(last.key)]
        IN /\ {"Right_Lanes", "Left_Lanes", "Total_Lanes"} \subseteq t.extra
           /\ t.Right_Lanes = CountPositive(t.RTL)
           /\ t.Left_Lanes = CountPositive(t.LTL)
           /\ t.Total_Lanes = t.Right_Lanes + t.Left_Lanes

-----------------------------------------------------------------------------
(* Properties of the sieves *)

\* C9: modal_priority_sieve returns 1 exactly when the treatment's mode equals
\* Modal_Priority_i for some rank i in 1..7 with lo <= i <= hi, and 0 otherwise
\* (0 as well when the mode is not ranked on the segment).
C9_ModalPrioritySieve ==
    sieve.phase = "sieved" =>
        sieve.Modal_Priority_Sieve =
            (IF \E i \in 1..NumPriorities :
                    /\ sieve.Modal_Priority[i] = sieve.mode
                    /\ sieve.lo <= i /\ i <= sieve.hi
             THEN 1 ELSE 0)

\* C10: success_metric_sieve returns 0 if the success metric of the treatment's mode
\* is 1 and 1 otherwise, also when the segment has no such column.
C10_SuccessMetricSieve ==
    sieve.phase = "sieved" =>
        sieve.Success_Metric_Sieve =
            (IF sieve.has_metric /\ sieve.metric = 1 THEN 0 ELSE 1)

-----------------------------------------------------------------------------
(* Properties of the tables of Tool 4 *)

SegmentIDs == {tool4.data_df[s].OBJECTID : s \in 1..Len(tool4.data_df)}

TreatmentTableIDs ==
    {tool4.treatment_df[i].Treatment_ID : i \in 1..Len(tool4.treatment_df)}

RowsOf(oid, id) ==
    {n \in 1..Len(tool4.treatment_intermediate) :
        /\ tool4.treatment_intermediate[n].OBJECTID = oid
        /\ tool4.treatment_intermediate[n].Treatment_ID = id}

\* C11: the intermediate table has exactly one row for each (segment, treatment)
\* pair, and in every row Treatment_Applied is 1 if and only if all five sieve
\* columns are 1
C11_IntermediateTable ==
    tool4.phase \in {"intermediate", "output"} =>
        /\ \A oid \in SegmentIDs, id \in TreatmentTableIDs :
              Cardinality(RowsOf(oid, id)) = 1
        /\ Len(tool4.treatment_intermediate) =
              Cardinality(SegmentIDs) * Cardinality(TreatmentTableIDs)
        /\ \A n \in 1..Len(tool4.treatment_intermediate) :
              LET row == tool4.treatment_intermediate[n]
              IN row.Treatment_Applied = 1 <=>
                    \A i \in 1..NumSieves : row.Sieves[i] = 1

AppliedIDs(oid) ==
    {tool4.treatment_intermediate[n].Treatment_ID :
        n \in {m \in 1..Len(tool4.treatment_intermediate) :
                 /\ tool4.treatment_intermediate[m].OBJECTID = oid
                 /\ tool4.treatment_intermediate[m].Treatment_Applied = 1}}

OutputRowsOf(oid) ==
    {g \in 1..Len(tool4.output_df) : tool4.output_df[g].OBJECTID = oid}

\* C12: the output has one row per segment; its TreatmentID lists exactly the
\* treatments applied to the segment, the Measures of Effectiveness of every listed
\* treatment are in that treatment's MOE column and the MOE columns of the other
\* treatments of the treatment table are empty
C12_TreatmentsBySegment ==
    tool4.phase = "output" =>
        /\ \A oid \in SegmentIDs : Cardinality(OutputRowsOf(oid)) = 1
        /\ Len(tool4.output_df) = Cardinality(SegmentIDs)
        /\ \A g \in 1..Len(tool4.output_df) :
              LET out == tool4.output_df[g]
              IN /\ Range(out.TreatmentID) = AppliedIDs(out.OBJECTID)
                 /\ \A id \in TreatmentTableIDs :
                       IF id \in AppliedIDs(out.OBJECTID)
                       THEN /\ id \in DOMAIN out.MOEs
                            /\ out.MOEs[id] = TreatmentMoes(tool4.treatment_df, id)
                       ELSE id \in DOMAIN out.MOEs => out.MOEs[id] = NaN

-----------------------------------------------------------------------------
(* Properties of the CurbLR converter *)

Converted == tool1.phase \in {"done", "raised"}

Regulations == 1..Len(tool1.features)

\* the exported features of regulation r
FeaturesOf(r) == {o \in 1..Len(tool1.out_fc) : tool1.out_fc[o].regulation = r}

\* regulation r has the key in a time span
HasKey(r, key) ==
    \E t \in 1..Len(tool1.features[r].timeSpans) :
        key \in DOMAIN tool1.features[r].timeSpans[t]

\* regulation r has the end ('from' or 'to') of timesOfDay in a time span
HasTime(r, end) ==
    \E t \in 1..Len(tool1.features[r].timeSpans) :
        /\ "timesOfDay" \in DOMAIN tool1.features[r].timeSpans[t]
        /\ end \in DOMAIN tool1.features[r].timeSpans[t]["timesOfDay"]

\* C13: a regulation with no daysOfWeek is exported as active on all seven days, one
\* with no timesOfDay as 0:00 to 23:59, and every exported feature that got a default
\* for daysOfWeek, timesOfDay_from or timesOfDay_to carries the matching warning
C13_MissingDateTime ==
    Converted =>
        /\ \A r \in Regulations :
              ~HasKey(r, "daysOfWeek") =>
                  \A d \in 1..Len(AllDays) :
                      \E o \in FeaturesOf(r) :
                          /\ tool1.out_fc[o].daysOfWeek = AllDays
                          /\ tool1.out_fc[o].dayOfWeek = AllDays[d]
        /\ \A r \in Regulations :
              ~HasKey(r, "timesOfDay") =>
                  /\ FeaturesOf(r) # {}
                  /\ \A o \in FeaturesOf(r) :
                        /\ tool1.out_fc[o].timesOfDay_from = "0:00"
                        /\ tool1.out_fc[o].timesOfDay_to = "23:59"
        /\ \A r \in Regulations : \A o \in FeaturesOf(r) :
              /\ ~HasKey(r, "daysOfWeek") =>
                    "daysOfWeek missing;" \in Range(tool1.out_fc[o].warnings)
              /\ (~HasTime(r, "from") \/ ~HasTime(r, "to")) =>
                    "timesOfDay missing;" \in Range(tool1.out_fc[o].warnings)

\* the key is missing from every feature of the input
MissingEverywhere(key) == \A r \in Regulations : ~HasKey(r, key)

NoShstRefId == \A r \in Regulations : "shstRefId" \notin DOMAIN tool1.features[r].location

NoPayment == \A r \in Regulations : ~tool1.features[r].has_payment

\* C14: when timesOfDay, effectiveDates, the shstRefId or the payment is missing from
\* every feature, the conversion completes and exports every regulation, with empty
\* effectiveDates_from/to and SharedStreetID and payment 0 for the missing fields
C14_OptionalFields ==
    (/\ Converted
     /\ \/ MissingEverywhere("timesOfDay")
        \/ MissingEverywhere("effectiveDates")
        \/ NoShstRefId
        \/ NoPayment) =>
        /\ tool1.phase = "done"
        /\ \A r \in Regulations : FeaturesOf(r) # {}
        /\ \A o \in 1..Len(tool1.out_fc) :
              /\ MissingEverywhere("effectiveDates") =>
                    /\ tool1.out_fc[o].effectiveDates_from = None
                    /\ tool1.out_fc[o].effectiveDates_to = None
              /\ NoShstRefId => tool1.out_fc[o].SharedStreetID = None
              /\ NoPayment => tool1.out_fc[o].payment = 0

\* every regulation has a time span and some time span has daysOfWeek
DaysOfWeekRead ==
    /\ \A r \in Regulations : tool1.features[r].timeSpans # <<>>
    /\ \E r \in Regulations : HasKey(r, "daysOfWeek")

\* the optional fields are handled whenever daysOfWeek can be read: the property
\* above fails on nothing but the regulations without daysOfWeek
OptionalFieldsWhenDaysRead == DaysOfWeekRead => C14_OptionalFields

-----------------------------------------------------------------------------
(* Properties of the SharedStreets fetch *)

\* C15: a run on an input polygon sends exactly one request, for that polygon's
\* extent; if the request fails the error propagates, the request is not sent again
\* and no output feature class is created
C15_SingleRequest ==
    Len(tool0.polygons) = 1 =>
        /\ tool0.phase = "start" => tool0.requests = <<>>
        /\ tool0.phase # "start" => tool0.requests = <<tool0.polygons[1]>>
        /\ tool0.failed =>
              /\ tool0.phase = "raised"
              /\ tool0.error = "URLError"
              /\ tool0.outputFC = tool0.existing

C15_Witness ==
    /\ Len(tool0.polygons) = 1
    /\ tool0.failed
    /\ tool0.phase = "raised"
    /\ tool0.requests = <<tool0.polygons[1]>>

-----------------------------------------------------------------------------
(* Properties of Tool 3 *)

\* the corridors the loop summarises before it ends, from corridor i on
RECURSIVE Summarised(_, _)
Summarised(corridors, i) ==
    IF i > Len(corridors) \/ corridors[i] \in {"keyerror", "raises"} THEN {}
    ELSE (IF corridors[i] = "summarised" THEN {i} ELSE {}) \cup Summarised(corridors, i + 1)

\* the curb table goes through the loop without an exception
CurbTableRead == \A i \in 1..Len(tool3.corridors) : tool3.corridors[i] \in {"summarised", "empty"}

\* C16: if evaluating the ROW scenarios raises, the tool emits a warning, skips the
\* ROW summary join and goes on to compute the curbside regulation summaries and to
\* join them to the output feature class copied before
C16_RowFallback ==
    tool3.row_raised # None =>
        /\ tool3.phase \in {"curbside", "done", "raised"}
        /\ tool3.error # "ROW"
        /\ RowWarning \in Range(tool3.warnings)
        /\ "ROW" \notin tool3.joined
        /\ tool3.output = "copied"
        /\ (tool3.phase = "done" /\ CurbTableRead) =>
              /\ Range(tool3.final_corridor_df) = Summarised(tool3.corridors, 1)
              /\ "Curb" \in tool3.joined <=> Summarised(tool3.corridors, 1) # {}

C16_Witness ==
    /\ tool3.row_raised = "shared_row_data_evaluator"
    /\ tool3.phase = "done"
    /\ tool3.joined = {"Curb"}
    /\ tool3.output = "copied"

-----------------------------------------------------------------------------
(* Properties of Tool 2 *)

\* the locations of the end vertices of a curb feature on a centerline
Locations(curb, route) == Range(GroupRows(tool2.located, curb, route))

\* C17: a (curb feature, centerline) pair is kept only if both the start vertex and
\* the end vertex of the curb feature were located on the centerline, at different
\* measures; no curb feature is associated with a centerline on which only one of
\* its end vertices was located
C17_BothVerticesLocated ==
    tool2.phase = "done" =>
        /\ \A i \in 1..Len(tool2.kept) :
              \E s \in Locations(tool2.kept[i].curb, tool2.kept[i].route),
                 e \in Locations(tool2.kept[i].curb, tool2.kept[i].route) :
                  /\ s.vertex = "start"
                  /\ e.vertex = "end"
                  /\ s.m_located # e.m_located
        /\ \A n \in 1..Len(tool2.out_route_curb_features) :
              {l.vertex : l \in Locations(tool2.out_route_curb_features[n].curb,
                                          tool2.out_route_curb_features[n].route)}
                  = {"start", "end"}

Measures(curb, route) == {l.m_located : l \in Locations(curb, route)}

Distances(curb, route) == {l.Distance : l \in Locations(curb, route)}

\* the difference of the located distances; for two end vertices located once each,
\* the difference of their distances to the centerline
DistanceDifference(curb, route) ==
    MaxOf(Distances(curb, route)) - MinOf(Distances(curb, route))

\* twice the mean absolute distance of the located end vertices
MeanAbsoluteDistanceTwice(curb, route) ==
    Abs(MaxOf(Distances(curb, route))) + Abs(MinOf(Distances(curb, route)))

CurbLength(curb, route) == (CHOOSE l \in Locations(curb, route) : TRUE).LENGTH

\* the centerline is a candidate of the curb feature that passes the filters
Passing(curb, route) ==
    /\ Cardinality(Measures(curb, route)) > 1
    /\ DistanceDifference(curb, route) * SinDenominator
          < SinNumerator * CurbLength(curb, route)

====
